---- MODULE Spec2Model ----
(***************************************************************************)
(* Selection-state bookkeeping of ComboBoxBase / ComboBox                  *)
(* (qfluentwidgets/components/widgets/combo_box.py).                       *)
(*                                                                         *)
(* The state is the list of ComboItem objects, the _currentIndex field,    *)
(* the text displayed by the widget, the dropMenu reference and the popup  *)
(* it designates.  Two bookkeeping variables record, for the operation     *)
(* that ran last, the signals it emitted and the state it started from.    *)
(* place records the popup placement computed by the last popup request,   *)
(* buttonMenu the menu installed on a DropDownButtonBase                   *)
(* (qfluentwidgets/components/widgets/button.py).                          *)
(***************************************************************************)
EXTENDS Integers, Sequences, FiniteSets, TLC

\* Largest number of items the list is allowed to grow to.
MaxLen == 3

\* Item texts used by the callers (duplicates are allowed in the list).
Texts == {"A", "B"}

\* Object identities available for ComboItem instances.  Identities are only
\* compared across one call: between calls the items of the list are named
\* 1, 2, ... in list order, and an item created by a call gets the lowest
\* name not in use.
Ids == 1..MaxLen

\* Index arguments supplied by callers: negative, valid and past-the-end.
Indexes == (0 - MaxLen)..MaxLen

\* Lists of texts handed to addItems and insertItems.
TextLists == {<<>>} \cup [1..1 -> Texts] \cup [1..2 -> Texts]

\* User data attached to items; "None" is the default of addItem.
Datas == {"None", "x"}

\* Height of the screen, height of the widget the popup is anchored to, and
\* the positions of the widget's top edge that are tried.
ScreenHeight == 170
WidgetHeight == 30
Tops == {40, 70, 100}

\* ComboBoxMenu.__init__: self.setItemHeight(33)
ItemHeight == 33

VARIABLES items, currentIndex, text, dropMenu, menu, emitted, last, place,
          buttonMenu

vars == <<items, currentIndex, text, dropMenu, menu, emitted, last, place,
          buttonMenu>>

----------------------------------------------------------------------------
(* Signals *)

\* currentTextChanged = pyqtSignal(str)
currentTextChanged(t) == [sig |-> "currentTextChanged", text |-> t, index |-> -1]

\* currentIndexChanged = pyqtSignal(int)
currentIndexChanged(i) == [sig |-> "currentIndexChanged", text |-> "", index |-> i]

----------------------------------------------------------------------------
(* Python list primitives used by the code *)

\* position at which list.insert(index, x) places x in a list of length n
InsertPos(n, index) ==
    IF index < 0
    THEN (IF index + n < 0 THEN 0 ELSE index + n)
    ELSE (IF index > n THEN n ELSE index)

\* list.insert(index, x)
ListInsert(s, index, x) ==
    LET p == InsertPos(Len(s), index)
    IN  SubSeq(s, 1, p) \o <<x>> \o SubSeq(s, p + 1, Len(s))

\* list.pop(index) for 0 <= index < len(s): the remaining list
ListPop(s, index) ==
    SubSeq(s, 1, index) \o SubSeq(s, index + 2, Len(s))

\* ComboItem(text, icon, userData): a new object, distinct from every item
\* still held by the list
ComboItem(s, t) ==
    LET used == {s[k].id : k \in 1..Len(s)}
        free == Ids \ used
    IN  [id |-> CHOOSE i \in free : \A j \in free : i <= j, text |-> t,
         userData |-> "None"]

----------------------------------------------------------------------------
(* Methods of ComboBoxBase as transformers of the widget state             *)
(* w = [items, currentIndex, text, emitted]                                *)

\* ComboBoxBase.currentText
currentText(w) ==
    IF ~(0 <= w.currentIndex /\ w.currentIndex < Len(w.items))
    THEN ""
    ELSE w.items[w.currentIndex + 1].text

\* setCurrentIndex as it would be if it raised the change signals itself
setCurrentIndex_notifying(w, index) ==
    IF ~(0 <= index /\ index < Len(w.items))
    THEN w
    ELSE [w EXCEPT !.currentIndex = index,
                   !.text = w.items[index + 1].text,
                   !.emitted = w.emitted
                        \o <<currentTextChanged(w.items[index + 1].text),
                             currentIndexChanged(index)>>]

\* ComboBoxBase.setCurrentIndex
setCurrentIndex(w, index) ==
    IF ~(0 <= index /\ index < Len(w.items))
    THEN w
    ELSE [w EXCEPT !.currentIndex = index,
                   !.text = w.items[index + 1].text]

\* ComboBoxBase._onItemClicked
onItemClicked(w, index) ==
    IF index = w.currentIndex
    THEN w
    ELSE LET w1 == setCurrentIndex(w, index)
         IN  [w1 EXCEPT !.emitted = w1.emitted
                             \o <<currentTextChanged(currentText(w1)),
                                  currentIndexChanged(index)>>]

\* addItem as it would be if the first item were selected through the
\* click path
addItem_clicking(w, t) ==
    LET w1 == [w EXCEPT !.items = Append(w.items, ComboItem(w.items, t))]
    IN  IF Len(w1.items) = 1 THEN onItemClicked(w1, 0) ELSE w1

\* ComboBoxBase.addItem
addItem(w, t) ==
    LET w1 == [w EXCEPT !.items = Append(w.items, ComboItem(w.items, t))]
    IN  IF Len(w1.items) = 1 THEN setCurrentIndex(w1, 0) ELSE w1

\* ComboBoxBase.addItems
RECURSIVE addItems(_, _)
addItems(w, texts) ==
    IF texts = <<>> THEN w
    ELSE addItems(addItem(w, Head(texts)), Tail(texts))

\* removeItem as it would be without the two emit calls of its last branch
removeItem_silent(w, index) ==
    IF ~(0 <= index /\ index < Len(w.items))
    THEN w
    ELSE LET w1 == [w EXCEPT !.items = ListPop(w.items, index)]
         IN  IF index < w1.currentIndex
             THEN onItemClicked(w1, w1.currentIndex - 1)
             ELSE IF index = w1.currentIndex
             THEN IF index > 0
                  THEN onItemClicked(w1, w1.currentIndex - 1)
                  ELSE setCurrentIndex(w1, 0)
             ELSE w1

\* removeItem as it would be without the branch for index < currentIndex
removeItem_noshift(w, index) ==
    IF ~(0 <= index /\ index < Len(w.items))
    THEN w
    ELSE LET w1 == [w EXCEPT !.items = ListPop(w.items, index)]
         IN  IF index = w1.currentIndex
             THEN IF index > 0
                  THEN onItemClicked(w1, w1.currentIndex - 1)
                  ELSE LET w2 == setCurrentIndex(w1, 0)
                       IN  [w2 EXCEPT !.emitted = w2.emitted
                                 \o <<currentTextChanged(currentText(w2)),
                                      currentIndexChanged(0)>>]
             ELSE w1

\* removeItem as it would be with the guard "index < len(self.items)" only:
\* list.pop then accepts a negative index and counts it from the end
removeItem_negative(w, index) ==
    IF ~(index < Len(w.items) /\ 0 <= index + Len(w.items))
    THEN w
    ELSE LET at == IF index < 0 THEN index + Len(w.items) ELSE index
             w1 == [w EXCEPT !.items = ListPop(w.items, at)]
         IN  IF index < w1.currentIndex
             THEN onItemClicked(w1, w1.currentIndex - 1)
             ELSE IF index = w1.currentIndex
             THEN IF index > 0
                  THEN onItemClicked(w1, w1.currentIndex - 1)
                  ELSE LET w2 == setCurrentIndex(w1, 0)
                       IN  [w2 EXCEPT !.emitted = w2.emitted
                                 \o <<currentTextChanged(currentText(w2)),
                                      currentIndexChanged(0)>>]
             ELSE w1

\* ComboBoxBase.removeItem
removeItem(w, index) ==
    IF ~(0 <= index /\ index < Len(w.items))
    THEN w
    ELSE LET w1 == [w EXCEPT !.items = ListPop(w.items, index)]
         IN  IF index < w1.currentIndex
             THEN onItemClicked(w1, w1.currentIndex - 1)
             ELSE IF index = w1.currentIndex
             THEN IF index > 0
                  THEN onItemClicked(w1, w1.currentIndex - 1)
                  ELSE LET w2 == setCurrentIndex(w1, 0)
                       IN  [w2 EXCEPT !.emitted = w2.emitted
                                 \o <<currentTextChanged(currentText(w2)),
                                      currentIndexChanged(0)>>]
             ELSE w1

\* ComboBoxBase.insertItem
insertItem(w, index, t) ==
    LET w1 == [w EXCEPT !.items = ListInsert(w.items, index,
                                             ComboItem(w.items, t))]
    IN  IF index <= w1.currentIndex
        THEN onItemClicked(w1, w1.currentIndex + 1)
        ELSE w1

\* the loop of ComboBoxBase.insertItems: the list after the remaining texts
\* have been inserted from position pos on
RECURSIVE insertItemsFrom(_, _, _)
insertItemsFrom(s, pos, texts) ==
    IF texts = <<>> THEN s
    ELSE insertItemsFrom(ListInsert(s, pos, ComboItem(s, Head(texts))),
                         pos + 1, Tail(texts))

\* ComboBoxBase.insertItems
insertItems(w, index, texts) ==
    LET pos == index + Len(texts)
        w1 == [w EXCEPT !.items = insertItemsFrom(w.items, index, texts)]
    IN  IF index <= w1.currentIndex
        THEN onItemClicked(w1, w1.currentIndex + pos - index)
        ELSE w1

\* ComboBoxBase.setItemData
setItemData(w, index, value) ==
    IF 0 <= index /\ index < Len(w.items)
    THEN [w EXCEPT !.items[index + 1].userData = value]
    ELSE w

\* the loop of ComboBoxBase.findData, from position i on
RECURSIVE findDataFrom(_, _, _)
findDataFrom(s, data, i) ==
    IF i >= Len(s) THEN -1
    ELSE IF s[i + 1].userData = data THEN i
    ELSE findDataFrom(s, data, i + 1)

\* ComboBoxBase.findData
findData(w, data) == findDataFrom(w.items, data, 0)

\* findText as it would be if the scan kept the last match
findText_last(w, t) ==
    LET hits == {k \in 1..Len(w.items) : w.items[k].text = t}
    IN  IF hits = {} THEN -1
        ELSE (CHOOSE k \in hits : \A j \in hits : k >= j) - 1

\* ComboBoxBase.findText
findText(w, t) ==
    LET hits == {k \in 1..Len(w.items) : w.items[k].text = t}
    IN  IF hits = {} THEN -1
        ELSE (CHOOSE k \in hits : \A j \in hits : k <= j) - 1

\* ComboBoxBase.setCurrentText
setCurrentText(w, t) ==
    IF t = currentText(w)
    THEN w
    ELSE LET index == findText(w, t)
         IN  IF index >= 0 THEN setCurrentIndex(w, index) ELSE w

\* ComboBoxBase.setItemText
setItemText(w, index, t) ==
    IF ~(0 <= index /\ index < Len(w.items))
    THEN w
    ELSE LET w1 == [w EXCEPT !.items[index + 1].text = t]
         IN  IF w1.currentIndex = index THEN [w1 EXCEPT !.text = t] ELSE w1

\* clear as it would be without the reset of _currentIndex
clear_keepindex(w) ==
    LET w1 == IF w.currentIndex >= 0 THEN [w EXCEPT !.text = ""] ELSE w
    IN  [w1 EXCEPT !.items = <<>>]

\* ComboBoxBase.clear
clear(w) ==
    LET w1 == IF w.currentIndex >= 0 THEN [w EXCEPT !.text = ""] ELSE w
    IN  [w1 EXCEPT !.items = <<>>, !.currentIndex = -1]

----------------------------------------------------------------------------
(* Handlers of EditableComboBox; w.text is the text of the line edit *)

\* _onTextEdited as it would be without the reset of _currentIndex
onTextEdited_noreset(w, t) ==
    LET w1 == [w EXCEPT !.emitted = w.emitted \o <<currentTextChanged(t)>>]
        i == findText(w1, t)
    IN  IF i >= 0
        THEN [w1 EXCEPT !.currentIndex = i,
                        !.emitted = w1.emitted \o <<currentIndexChanged(i)>>]
        ELSE w1

\* EditableComboBox._onTextEdited; its loop is the loop of findText
onTextEdited(w, t) ==
    LET w1 == [w EXCEPT !.currentIndex = -1,
                        !.emitted = w.emitted \o <<currentTextChanged(t)>>]
        i == findText(w1, t)
    IN  IF i >= 0
        THEN [w1 EXCEPT !.currentIndex = i,
                        !.emitted = w1.emitted \o <<currentIndexChanged(i)>>]
        ELSE w1

\* EditableComboBox._onReturnPressed
onReturnPressed(w) ==
    IF w.text = ""
    THEN w
    ELSE LET index == findText(w, w.text)
         IN  IF index >= 0 /\ index # w.currentIndex
             THEN [w EXCEPT !.currentIndex = index,
                            !.emitted = w.emitted
                                \o <<currentIndexChanged(index)>>]
             ELSE IF index = -1
             THEN LET w1 == addItem(w, w.text)
                  IN  setCurrentIndex(w1, Len(w1.items) - 1)
             ELSE w

\* EditableComboBox._onClearButtonClicked
onClearButtonClicked(w) ==
    [w EXCEPT !.text = "", !.currentIndex = -1]

----------------------------------------------------------------------------
(* The widget as a state machine *)

\* the widget state an operation starts from; nothing emitted yet
Widget ==
    [items |-> items, currentIndex |-> currentIndex, text |-> text,
     emitted |-> <<>>]

\* what is remembered of the state an operation started from: the index,
\* the displayed text, count() and the identity of the selected item (0: none)
Pre ==
    [currentIndex |-> currentIndex, text |-> text, count |-> Len(items),
     id |-> IF 0 <= currentIndex /\ currentIndex < Len(items)
            THEN items[currentIndex + 1].id ELSE 0]

\* no popup placement was computed
NoPlace ==
    [widget |-> "none", height |-> 0, pd |-> 0, pu |-> 0, queries |-> <<>>,
     exec |-> [pos |-> 0, aniType |-> "none"]]

\* the items of s, named by their position
Renamed(s) == [k \in 1..Len(s) |-> [s[k] EXCEPT !.id = k]]

\* the index in s of the item that was selected when the call started, -1 if
\* no item was selected or if it is no longer in s
IndexOfSelected(s) ==
    LET at == {k \in 1..Len(s) : s[k].id = Pre.id}
    IN  IF at = {} THEN -1 ELSE (CHOOSE k \in at : TRUE) - 1

\* store the widget state w reached by operation op(index, t), with the
\* cursor position seen by a closed notification (inside), the value
\* returned to the caller (ret) and the popup placement computed (p)
Record(w, op, index, t, inside, ret, p) ==
    /\ items' = Renamed(w.items)
    /\ currentIndex' = w.currentIndex
    /\ text' = w.text
    /\ emitted' = w.emitted
    /\ last' = [op |-> op, index |-> index, text |-> t, inside |-> inside,
                ret |-> ret, pre |-> Pre, sel |-> IndexOfSelected(w.items)]
    /\ place' = p

\* store the widget state w reached by operation op(index, t)
Apply(w, op, index, t) ==
    Record(w, op, index, t, FALSE, -1, NoPlace)

\* ComboBoxBase.__init__
Init ==
    /\ items = <<>>
    /\ currentIndex = -1
    /\ text = ""
    /\ dropMenu = FALSE
    /\ menu = [open |-> FALSE, n |-> 0]
    /\ emitted = <<>>
    /\ last = [op |-> "init", index |-> -1, text |-> "", inside |-> FALSE,
               ret |-> -1,
               pre |-> [currentIndex |-> -1, text |-> "", count |-> 0,
                        id |-> 0],
               sel |-> -1]
    /\ place = NoPlace
    /\ buttonMenu = 0

AddItem ==
    \E t \in Texts :
        /\ Len(items) < MaxLen
        /\ Apply(addItem(Widget, t), "addItem", -1, t)
        /\ UNCHANGED <<dropMenu, menu, buttonMenu>>

InsertItem ==
    \E index \in Indexes, t \in Texts :
        /\ Len(items) < MaxLen
        /\ Apply(insertItem(Widget, index, t), "insertItem", index, t)
        /\ UNCHANGED <<dropMenu, menu, buttonMenu>>

AddItems ==
    \E texts \in TextLists :
        /\ Len(items) + Len(texts) <= MaxLen
        /\ Apply(addItems(Widget, texts), "addItems", -1, "")
        /\ UNCHANGED <<dropMenu, menu, buttonMenu>>

InsertItems ==
    \E index \in Indexes, texts \in TextLists :
        /\ Len(items) + Len(texts) <= MaxLen
        /\ Apply(insertItems(Widget, index, texts), "insertItems", index, "")
        /\ UNCHANGED <<dropMenu, menu, buttonMenu>>

RemoveItem ==
    \E index \in Indexes :
        /\ Apply(removeItem(Widget, index), "removeItem", index, "")
        /\ UNCHANGED <<dropMenu, menu, buttonMenu>>

SetCurrentIndex ==
    \E index \in Indexes :
        /\ Apply(setCurrentIndex(Widget, index), "setCurrentIndex", index, "")
        /\ UNCHANGED <<dropMenu, menu, buttonMenu>>

SetCurrentText ==
    \E t \in Texts \cup {""} :
        /\ Apply(setCurrentText(Widget, t), "setCurrentText", -1, t)
        /\ UNCHANGED <<dropMenu, menu, buttonMenu>>

SetItemText ==
    \E index \in Indexes, t \in Texts :
        /\ Apply(setItemText(Widget, index, t), "setItemText", index, t)
        /\ UNCHANGED <<dropMenu, menu, buttonMenu>>

Clear ==
    /\ Apply(clear(Widget), "clear", -1, "")
    /\ UNCHANGED <<dropMenu, menu, buttonMenu>>

\* _onDropMenuClosed as it would be if it dropped the reference wherever
\* the cursor is (as EditableComboBox._onDropMenuClosed does)
onDropMenuClosed_always(held, inside) == FALSE

SetItemData ==
    \E index \in Indexes, value \in Datas :
        /\ Apply(setItemData(Widget, index, value), "setItemData", index, value)
        /\ UNCHANGED <<dropMenu, menu, buttonMenu>>

FindText ==
    \E t \in Texts \cup {""} :
        /\ Record(Widget, "findText", -1, t, FALSE, findText(Widget, t),
                  NoPlace)
        /\ UNCHANGED <<dropMenu, menu, buttonMenu>>

FindData ==
    \E data \in Datas :
        /\ Record(Widget, "findData", -1, data, FALSE,
                  findData(Widget, data), NoPlace)
        /\ UNCHANGED <<dropMenu, menu, buttonMenu>>

\* The user changes the text of the line edit to t: QLineEdit.textEdited
TextEdited ==
    \E t \in Texts \cup {""} :
        /\ Apply(onTextEdited([Widget EXCEPT !.text = t], t), "textEdited",
                 -1, t)
        /\ UNCHANGED <<dropMenu, menu, buttonMenu>>

\* The user presses return in the line edit: QLineEdit.returnPressed
ReturnPressed ==
    /\ text = "" \/ findText(Widget, text) >= 0 \/ Len(items) < MaxLen
    /\ Apply(onReturnPressed(Widget), "returnPressed", -1, "")
    /\ UNCHANGED <<dropMenu, menu, buttonMenu>>

\* The user clicks the clear button of the line edit
ClearButtonClicked ==
    /\ Apply(onClearButtonClicked(Widget), "clearButtonClicked", -1, "")
    /\ UNCHANGED <<dropMenu, menu, buttonMenu>>

\* ComboBoxBase._onDropMenuClosed, run when the popup reports that it closed;
\* inside: the cursor is over the combo box at that moment
onDropMenuClosed(held, inside) ==
    IF ~inside THEN FALSE ELSE held

\* MenuAnimationType.DROP_DOWN / PULL_UP
DROP_DOWN == "DROP_DOWN"
PULL_UP == "PULL_UP"

\* height of the popup's content: n actions of ItemHeight each
itemsHeight(n) == n * ItemHeight

\* The sizing oracle menu.view.heightForAnimation(pos, aniType) for a popup
\* whose content is h high: the height the popup can take when opened at
\* the vertical position pos in that direction, bounded by the room the
\* screen leaves below (drop-down) or above (pull-up) pos
heightForAnimation(h, pos, aniType) ==
    LET room == IF aniType = DROP_DOWN THEN ScreenHeight - pos ELSE pos
    IN  IF h <= room THEN h ELSE room

\* ComboBoxBase._showComboMenu, from "determine the animation type": the
\* widget's top edge is at top, the popup's content is h high
showComboMenu(top, h) ==
    LET pd == top + WidgetHeight
        hd == heightForAnimation(h, pd, DROP_DOWN)
        pu == top
        hu == heightForAnimation(h, pd, PULL_UP)
    IN  [widget |-> "ComboBox", height |-> h, pd |-> pd, pu |-> pu,
         queries |-> <<[pos |-> pd, aniType |-> DROP_DOWN],
                       [pos |-> pd, aniType |-> PULL_UP]>>,
         exec |-> IF hd >= hu
                  THEN [pos |-> pd, aniType |-> DROP_DOWN]
                  ELSE [pos |-> pu, aniType |-> PULL_UP]]

\* DropDownButtonBase._showMenu, from "determine the animation type"
showMenu(top, h) ==
    LET pd == top + WidgetHeight
        hd == heightForAnimation(h, pd, DROP_DOWN)
        pu == top
        hu == heightForAnimation(h, pu, PULL_UP)
    IN  [widget |-> "DropDownButton", height |-> h, pd |-> pd, pu |-> pu,
         queries |-> <<[pos |-> pd, aniType |-> DROP_DOWN],
                       [pos |-> pu, aniType |-> PULL_UP]>>,
         exec |-> IF hd >= hu
                  THEN [pos |-> pd, aniType |-> DROP_DOWN]
                  ELSE [pos |-> pu, aniType |-> PULL_UP]]

\* ComboBoxBase._toggleComboMenu (ComboBox.mouseReleaseEvent), with
\* _closeComboMenu and _showComboMenu; top: where the widget is on the screen
ToggleComboMenu ==
    \E top \in Tops :
        /\ UNCHANGED buttonMenu
        /\ IF dropMenu
           THEN /\ dropMenu' = FALSE
                /\ menu' = [open |-> FALSE, n |-> 0]
                /\ Apply(Widget, "toggleComboMenu", -1, "")
           ELSE IF Len(items) = 0
           THEN /\ UNCHANGED <<dropMenu, menu>>
                /\ Apply(Widget, "toggleComboMenu", -1, "")
           ELSE /\ dropMenu' = TRUE
                /\ menu' = [open |-> TRUE, n |-> Len(items)]
                /\ Record(Widget, "toggleComboMenu", -1, "", FALSE, -1,
                          showComboMenu(top, itemsHeight(Len(items))))

\* An action of the open popup is triggered: the popup closes and the lambda
\* bound to action x in _showComboMenu calls _onItemClicked(x)
MenuItemClicked ==
    \E x \in 0..(MaxLen - 1), inside \in BOOLEAN :
        /\ menu.open
        /\ x < menu.n
        /\ menu' = [open |-> FALSE, n |-> 0]
        /\ dropMenu' = onDropMenuClosed(dropMenu, inside)
        /\ Record(onItemClicked(Widget, x), "onItemClicked", x, "", inside,
                  -1, NoPlace)
        /\ UNCHANGED buttonMenu

\* The open popup is dismissed without a selection
MenuDismissed ==
    \E inside \in BOOLEAN :
        /\ menu.open
        /\ menu' = [open |-> FALSE, n |-> 0]
        /\ dropMenu' = onDropMenuClosed(dropMenu, inside)
        /\ Record(Widget, "menuDismissed", -1, "", inside, -1, NoPlace)
        /\ UNCHANGED buttonMenu

\* DropDownButtonBase.setMenu, with a menu of n actions
SetMenu ==
    \E n \in 1..MaxLen :
        /\ buttonMenu' = n
        /\ Apply(Widget, "setMenu", n, "")
        /\ UNCHANGED <<dropMenu, menu>>

\* DropDownButtonBase._showMenu
ShowMenu ==
    \E top \in Tops :
        /\ UNCHANGED <<dropMenu, menu, buttonMenu>>
        /\ IF buttonMenu = 0
           THEN Apply(Widget, "showMenu", -1, "")
           ELSE Record(Widget, "showMenu", -1, "", FALSE, -1,
                       showMenu(top, itemsHeight(buttonMenu)))

Next ==
    \/ AddItem
    \/ AddItems
    \/ InsertItem
    \/ InsertItems
    \/ RemoveItem
    \/ SetCurrentIndex
    \/ SetCurrentText
    \/ SetItemText
    \/ Clear
    \/ ToggleComboMenu
    \/ MenuItemClicked
    \/ MenuDismissed

Spec == Init /\ [][Next]_vars

\* only addItem, insertItem and removeItem calls, on a combo box that starts
\* empty
NextList ==
    \/ AddItem
    \/ InsertItem
    \/ RemoveItem

SpecList == Init /\ [][NextList]_vars

\* popup requests on a combo box and on a drop-down button
NextPlace ==
    \/ AddItem
    \/ ToggleComboMenu
    \/ MenuDismissed
    \/ SetMenu
    \/ ShowMenu

SpecPlace == Init /\ [][NextPlace]_vars

\* lookups in a list whose items carry user data
NextFind ==
    \/ AddItem
    \/ RemoveItem
    \/ SetItemData
    \/ FindText
    \/ FindData

SpecFind == Init /\ [][NextFind]_vars

\* an editable combo box, filled by addItem calls and edited by the user
NextEdit ==
    \/ AddItem
    \/ TextEdited
    \/ ReturnPressed
    \/ ClearButtonClicked

SpecEdit == Init /\ [][NextEdit]_vars

----------------------------------------------------------------------------
(* Properties *)

\* i is a valid index into a list of n items
Valid(i, n) == 0 <= i /\ i < n

\* C1: after every addItem / insertItem / removeItem call on a combo box
\* that starts empty, currentIndex is -1 or a valid index into the list.
C1_CurrentIndexInRange ==
    currentIndex = -1 \/ Valid(currentIndex, Len(items))

\* C2: removeItem(index) with index = currentIndex leaves currentIndex at
\* index - 1 if index > 0, else at 0 if an entry remains, else at -1.
C2_RemoveCurrentSetsIndex ==
    (/\ last.op = "removeItem"
     /\ Valid(last.index, last.pre.count)
     /\ last.index = last.pre.currentIndex)
    => currentIndex = IF last.index > 0 THEN last.index - 1
                      ELSE IF Len(items) > 0 THEN 0 ELSE -1

\* C3: after insertItem(index, ...) made while an entry is selected, for any
\* index, currentIndex designates the entry that was selected before.
C3_InsertFollowsSelected ==
    (last.op = "insertItem" /\ last.pre.id # 0)
    => /\ Valid(currentIndex, Len(items))
       /\ currentIndex = last.sel

\* C4: insertItem(index, ...) adds one to currentIndex when
\* index <= currentIndex and leaves it unchanged when index > currentIndex.
C4_InsertShiftsIndex ==
    last.op = "insertItem"
    => currentIndex = IF last.index <= last.pre.currentIndex
                      THEN last.pre.currentIndex + 1
                      ELSE last.pre.currentIndex

\* C5: addItem emits nothing; on an empty list it makes the new entry current
\* (index 0, its text displayed); on a non-empty list it appends the entry
\* and leaves currentIndex and the displayed text as they were.
C5_AddItemFirstSilent ==
    last.op = "addItem"
    => /\ emitted = <<>>
       /\ Len(items) = last.pre.count + 1
       /\ items[Len(items)].text = last.text
       /\ IF last.pre.count = 0
          THEN currentIndex = 0 /\ text = last.text
          ELSE currentIndex = last.pre.currentIndex /\ text = last.pre.text

C5_Witness ==
    /\ last.op = "addItem"
    /\ last.pre.count = 0
    /\ last.pre.currentIndex = -1
    /\ last.text = "A"
    /\ currentIndex = 0
    /\ text = "A"
    /\ emitted = <<>>

\* C6: when removeItem removes the selected entry, exactly a text-changed and
\* an index-changed notification are emitted, carrying the text of the entry
\* selected after the call (currentText()) and the resulting currentIndex.
C6_RemoveCurrentNotifies ==
    (/\ last.op = "removeItem"
     /\ Valid(last.index, last.pre.count)
     /\ last.index = last.pre.currentIndex)
    => emitted = <<currentTextChanged(currentText(Widget)),
                   currentIndexChanged(currentIndex)>>

\* three items with the middle one selected, removeItem(1): the first item
\* ("A") is selected and ("A", 0) is notified
C6_Witness ==
    /\ last.op = "removeItem"
    /\ last.index = 1
    /\ last.pre.count = 3
    /\ last.pre.currentIndex = 1
    /\ last.pre.text = "B"
    /\ Len(items) = 2
    /\ items[1].text = "A"
    /\ currentIndex = 0
    /\ emitted = <<currentTextChanged("A"), currentIndexChanged(0)>>

\* C7: removeItem(index) with a valid index other than currentIndex keeps the
\* same entry selected: currentIndex drops by one when index < currentIndex
\* and is unchanged when index > currentIndex.
C7_RemoveOtherKeepsSelected ==
    (/\ last.op = "removeItem"
     /\ Valid(last.index, last.pre.count)
     /\ last.index # last.pre.currentIndex)
    => /\ currentIndex = IF last.index < last.pre.currentIndex
                         THEN last.pre.currentIndex - 1
                         ELSE last.pre.currentIndex
       /\ last.pre.id # 0
          => /\ Valid(currentIndex, Len(items))
             /\ currentIndex = last.sel

C7_Witness ==
    /\ last.op = "removeItem"
    /\ last.index = 0
    /\ last.pre.count = 3
    /\ last.pre.currentIndex = 2
    /\ currentIndex = 1
    /\ Len(items) = 2
    /\ last.pre.id = 3
    /\ last.sel = 1

\* C8: a selection event onItemClicked(index) changes nothing and emits
\* nothing when index = currentIndex; otherwise it makes index current,
\* displays that entry's text and emits text-changed(new text) then
\* index-changed(index), once each.
C8_ItemClickedSelects ==
    last.op = "onItemClicked"
    => IF last.index = last.pre.currentIndex
       THEN /\ currentIndex = last.pre.currentIndex
            /\ text = last.pre.text
            /\ emitted = <<>>
       ELSE /\ currentIndex = last.index
            /\ Valid(last.index, Len(items))
            /\ text = items[last.index + 1].text
            /\ emitted = <<currentTextChanged(text),
                           currentIndexChanged(last.index)>>

\* C9: setCurrentIndex(index) with a valid index makes index current and
\* displays that entry's text, and emits no notification, whatever
\* currentIndex was before.
C9_SetCurrentIndexSilent ==
    (last.op = "setCurrentIndex" /\ Valid(last.index, Len(items)))
    => /\ currentIndex = last.index
       /\ text = items[last.index + 1].text
       /\ emitted = <<>>

C9_Witness ==
    /\ last.op = "setCurrentIndex"
    /\ last.index = 1
    /\ Len(items) = 2
    /\ last.pre.currentIndex = 0
    /\ last.pre.text = "A"
    /\ currentIndex = 1
    /\ text = "B"
    /\ emitted = <<>>

\* C10: removeItem(index) and setCurrentIndex(index) with index outside
\* [0, count()) change neither the entries, nor currentIndex, nor the
\* displayed text, and emit nothing, in whatever state they are called.
C10_OutOfRangeNoOp ==
    [][(/\ last'.op \in {"removeItem", "setCurrentIndex"}
        /\ ~Valid(last'.index, Len(items)))
       => /\ items' = items
          /\ currentIndex' = currentIndex
          /\ text' = text
          /\ emitted' = <<>>]_vars

\* removeItem(-1) on a list of two items: Python's own pop(-1) would have
\* removed the last one
C10_Witness ==
    /\ last.op = "removeItem"
    /\ last.index = -1
    /\ last.pre.count = 2
    /\ Len(items) = 2
    /\ currentIndex = last.pre.currentIndex
    /\ text = last.pre.text
    /\ emitted = <<>>

\* C11: setCurrentText(t) changes nothing when t is the displayed text;
\* otherwise, when some entry has text t, the lowest index of such an entry
\* becomes current and t is displayed; when no entry has text t,
\* currentIndex and the displayed text stay as they were.
C11_SetCurrentTextSelects ==
    last.op = "setCurrentText"
    => IF last.text = last.pre.text \/ findText(Widget, last.text) = -1
       THEN currentIndex = last.pre.currentIndex /\ text = last.pre.text
       ELSE currentIndex = findText(Widget, last.text) /\ text = last.text

\* the popup was opened at the anchor point of its direction
OwnAnchor(p, aniType) == IF aniType = DROP_DOWN THEN p.pd ELSE p.pu

\* C12: a popup request opens the popup drop-down when the height available
\* for drop-down (at the bottom edge of the anchor) is at least the height
\* available for pull-up (at its top edge), and pull-up otherwise, at the
\* chosen direction's own anchor point.
C12_PlacementByAvailableHeight ==
    place.widget # "none"
    => LET hd == heightForAnimation(place.height, place.pd, DROP_DOWN)
           hu == heightForAnimation(place.height, place.pu, PULL_UP)
       IN  /\ place.exec.aniType = IF hd >= hu THEN DROP_DOWN ELSE PULL_UP
           /\ place.exec.pos = OwnAnchor(place, place.exec.aniType)

\* C13: in every popup request, of the combo box and of the drop-down
\* button, heightForAnimation is asked about drop-down at the bottom edge of
\* the anchor and about pull-up at its top edge.
C13_OracleQueriedAtOwnAnchor ==
    place.widget # "none"
    => /\ Len(place.queries) = 2
       /\ \A k \in 1..2 :
              place.queries[k].pos = OwnAnchor(place, place.queries[k].aniType)
       /\ {place.queries[k].aniType : k \in 1..2} = {DROP_DOWN, PULL_UP}

\* the popup's closed notification was handled by the last step
ClosedHandled(l) == l.op \in {"menuDismissed", "onItemClicked"}

\* C14 as stated: once the popup's closed notification has been handled the
\* combo box holds no popup reference, so that the popup request that
\* follows opens a fresh popup on a non-empty list; a popup request on an
\* empty list creates no popup.
C14_ReleasedWhenDismissed ==
    [][/\ ClosedHandled(last') => ~dropMenu'
       /\ (last'.op = "toggleComboMenu" /\ ClosedHandled(last))
          => IF Len(items) = 0
             THEN ~menu'.open
             ELSE dropMenu' /\ menu'.open /\ menu'.n = Len(items)
       /\ (last'.op = "toggleComboMenu" /\ Len(items) = 0) => ~menu'.open]_vars

\* C14 as amended: when the closed notification is handled, the reference is
\* dropped if the cursor is outside the combo box and kept if it is over it;
\* a popup request made while a reference is held is consumed as a close and
\* drops the reference; a popup request made while none is held opens a
\* fresh popup on a non-empty list and creates no popup on an empty one.
C14_ReleasedUnlessCursorInside ==
    [][/\ ClosedHandled(last') => dropMenu' = (dropMenu /\ last'.inside)
       /\ last'.op = "toggleComboMenu"
          => IF dropMenu
             THEN ~dropMenu' /\ ~menu'.open
             ELSE IF Len(items) = 0
             THEN ~dropMenu' /\ ~menu'.open
             ELSE dropMenu' /\ menu'.open /\ menu'.n = Len(items)]_vars

\* the popup was dismissed with the cursor over the combo box: it is closed
\* and still referenced
C14_Witness ==
    /\ last.op = "menuDismissed"
    /\ last.inside
    /\ dropMenu
    /\ ~menu.open
    /\ Len(items) > 0

\* C15: after clear() the list is empty and currentIndex is -1, and the
\* displayed text is empty if an entry was selected before; an addItem(t)
\* that follows makes t the current entry, at index 0.
C15_ClearResets ==
    [][/\ last'.op = "clear"
          => /\ Len(items') = 0
             /\ currentIndex' = -1
             /\ Valid(currentIndex, Len(items)) => text' = ""
       /\ (last.op = "clear" /\ last'.op = "addItem")
          => /\ Len(items') = 1
             /\ items'[1].text = last'.text
             /\ currentIndex' = 0
             /\ text' = last'.text]_vars

\* clear() called with two items, the second one selected
C15_Witness ==
    /\ last.op = "clear"
    /\ last.pre.count = 2
    /\ last.pre.currentIndex = 1
    /\ last.pre.text = "B"
    /\ Len(items) = 0
    /\ currentIndex = -1
    /\ text = ""

\* r is the lowest index (from 0) of the positions hits (from 1), -1 if none
LowestOrNone(hits, r) ==
    IF hits = {} THEN r = -1
    ELSE (r + 1) \in hits /\ \A k \in hits : r + 1 <= k

\* C16: findText(t) and findData(d) return the lowest index of an entry with
\* text t (user data d), or -1 when there is none, duplicates included, and
\* change nothing.
C16_FindReturnsLowest ==
    [][/\ last'.op = "findText"
          => LowestOrNone({k \in 1..Len(items) : items[k].text = last'.text},
                          last'.ret)
       /\ last'.op = "findData"
          => LowestOrNone({k \in 1..Len(items) :
                               items[k].userData = last'.text}, last'.ret)
       /\ last'.op \in {"findText", "findData"}
          => /\ items' = items
             /\ currentIndex' = currentIndex
             /\ text' = text
             /\ emitted' = <<>>]_vars

\* findText("B") on a list whose second and third items both read "B"
C16_Witness ==
    /\ last.op = "findText"
    /\ last.text = "B"
    /\ last.ret = 1
    /\ Len(items) = 3
    /\ items[1].text = "A"
    /\ items[2].text = "B"
    /\ items[3].text = "B"

\* C17: in the non-editable combo box, whenever currentIndex is a valid
\* index the displayed text is the text of the entry at currentIndex.
C17_DisplayedTextIsCurrentText ==
    Valid(currentIndex, Len(items)) => text = items[currentIndex + 1].text

\* C18: every index-changed notification emitted by insertItem, insertItems,
\* removeItem or a popup selection carries the currentIndex reached by that
\* operation, which is a valid index, and comes right after a text-changed
\* notification carrying the text of the entry at that index.
C18_NotifiedIndexIsCurrent ==
    last.op \in {"insertItem", "insertItems", "removeItem", "onItemClicked"}
    => \A k \in 1..Len(emitted) :
           emitted[k].sig = "currentIndexChanged"
           => /\ emitted[k].index = currentIndex
              /\ Valid(currentIndex, Len(items))
              /\ k > 1
              /\ emitted[k - 1]
                     = currentTextChanged(items[currentIndex + 1].text)

\* the positions (from 1) of the entries of s whose text is t
WithText(s, t) == {k \in 1..Len(s) : s[k].text = t}

\* C19: in the editable combo box, after text-edited events, return-pressed
\* events and clear-button clicks, currentIndex is -1 or the lowest index of
\* an entry whose text is the line-edit text; text-edited(t) emits
\* text-changed(t) and then index-changed(i) only if an entry has text t (i
\* the lowest such index), and leaves currentIndex at -1 otherwise;
\* return-pressed with a non-empty text absent from the list appends one
\* entry with that text and makes it current, and adds no entry when the
\* text is in the list; the clear button sets currentIndex to -1.
C19_EditableIndexFollowsText ==
    [][/\ currentIndex' = -1
          \/ /\ Valid(currentIndex', Len(items'))
             /\ LowestOrNone(WithText(items', text'), currentIndex')
       /\ last'.op = "textEdited"
          => /\ text' = last'.text
             /\ items' = items
             /\ LowestOrNone(WithText(items, last'.text), currentIndex')
             /\ emitted' = IF currentIndex' = -1
                           THEN <<currentTextChanged(last'.text)>>
                           ELSE <<currentTextChanged(last'.text),
                                  currentIndexChanged(currentIndex')>>
       /\ (last'.op = "returnPressed" /\ text # "")
          => IF WithText(items, text) = {}
             THEN /\ Len(items') = Len(items) + 1
                  /\ SubSeq(items', 1, Len(items)) = items
                  /\ items'[Len(items')].text = text
                  /\ currentIndex' = Len(items') - 1
                  /\ text' = text
             ELSE items' = items
       /\ last'.op = "clearButtonClicked" => currentIndex' = -1]_vars

\* return pressed with a text that was not in a non-empty list: the entry is
\* appended and current
C19_Witness ==
    /\ last.op = "returnPressed"
    /\ last.pre.count = 1
    /\ last.pre.currentIndex = -1
    /\ Len(items) = 2
    /\ items[1].text = "A"
    /\ items[2].text = "B"
    /\ text = "B"
    /\ currentIndex = 1

====
